---- MODULE Spec2Model ----
(***************************************************************************)
(* One SOCKS5 session of toy-socks5 (src/server.go): handle(conn) drives   *)
(* a SocksProxy through handleGreetings, handleRequestHeader,              *)
(* handleRequestCommand, the write of the reply payload, doReplyAction     *)
(* (exchange: two copy goroutines and an error channel) and the closing of *)
(* the two connections.  Bytes are naturals 0..255.  A Read on the client  *)
(* connection takes what has arrived of the client's bytes, at most the    *)
(* size of the buffer, and never looks at the count: the buffer keeps what *)
(* it held where nothing was read.  A Read or Write on a connection this   *)
(* side has closed fails and moves no byte.                                *)
(***************************************************************************)
EXTENDS Integers, Sequences, FiniteSets, TLC

VARIABLES
    input,      \* the bytes the client sends during the handshake, then end-of-stream
    cuts,       \* where the client's bytes arrive apart: a Read does not pass such a position
    m,          \* the session: SocksProxy fields (m.s), the client connection (m.client), the calls made (m.calls)
    pc,         \* position of handle(): which statement runs next
    payload,    \* the reply payload handleRequestCommand returned
    cmdErr,     \* whether handleRequestCommand returned a non-nil error
    relay,      \* exchange(): the two copy directions, errCh and the receive loop
    listener    \* serve(): "accepting" while the process runs its accept loop, "exited" once the process is gone

vars == <<input, cuts, m, pc, payload, cmdErr, relay, listener>>

\* ------------------------------------------------------------ bounds
MaxNMethods == 2
MaxData == 2
MaxCuts == 1

\* ------------------------------------------------------------ constants of server.go
socksVersion == 5
noAuth == 0
connect == 1
bind == 2
udpAssociate == 3
ipv4 == 1
domainName == 3
ipv6 == 4
succeeded == 0
generalFailure == 1
networkUnreachable == 3
hostUnreachable == 4
connectionRefused == 5
commandNotSupported == 7
addressTypeNotSupported == 8

\* ------------------------------------------------------------ helpers
Min(a, b) == IF a <= b THEN a ELSE b

Zeros(n) == [i \in 1..n |-> 0]

\* all sequences over S of length exactly n
RECURSIVE SeqsOfLen(_, _)
SeqsOfLen(S, n) ==
    IF n = 0 THEN {<<>>}
    ELSE {Append(q, x) : q \in SeqsOfLen(S, n - 1), x \in S}

Prefixes(q) == {SubSeq(q, 1, k) : k \in 0..Len(q)}

\* ------------------------------------------------------------ the client connection
\* the position up to which the client's bytes have arrived for a Read at from
arrived(from) ==
    LET later == {c \in cuts : c > from}
    IN IF later = {} THEN Len(input) ELSE CHOOSE c \in later : \A x \in later : c <= x

\* s.conn.Read(buf) into a buffer that holds old: the bytes that have
\* arrived, at most Len(old), replace the front of the buffer; the count
\* and the error Read returns are dropped.  A Read that meets the end of
\* the client's bytes has seen end-of-stream.
connReadInto(mm, old) ==
    IF mm.client.state = "open"
    THEN LET n == Len(old)
             from == mm.client.pos
             got == SubSeq(input, from + 1, Min(from + n, arrived(from)))
         IN [m |-> [mm EXCEPT !.client.pos = from + Len(got),
                              !.client.eof = @ \/ (Len(got) < n /\ from + Len(got) = Len(input)),
                              !.calls = Append(@, [op |-> "Read", ok |-> Len(got) = n, data |-> got])],
             buf |-> got \o SubSeq(old, Len(got) + 1, n)]
    ELSE [m |-> [mm EXCEPT !.calls = Append(@, [op |-> "Read", ok |-> FALSE, data |-> <<>>])],
          buf |-> old]

\* make([]byte, n) then s.conn.Read(buf): the buffer after the call, and the session after it
connRead(mm, n) == connReadInto(mm, Zeros(n))

\* s.conn.Write(bytes): delivered to the client only while the connection is open
connWrite(mm, kind, bytes) ==
    IF mm.client.state = "open"
    THEN [mm EXCEPT !.client.out = Append(@, [kind |-> kind, bytes |-> bytes]),
                    !.calls = Append(@, [op |-> "Write", ok |-> TRUE, data |-> bytes])]
    ELSE [mm EXCEPT !.calls = Append(@, [op |-> "Write", ok |-> FALSE, data |-> bytes])]

closeConnection(mm) ==
    [mm EXCEPT !.client.state = "closed",
               !.client.closes = @ + 1,
               !.calls = Append(@, [op |-> "Close", ok |-> mm.client.state = "open", data |-> <<>>])]

\* ------------------------------------------------------------ replies
generateReply(s, ip, port) ==
    <<socksVersion, s.reply, 0, s.addressType>> \o ip \o <<(port \div 256) % 256, port % 256>>

generateSucceededReply(s, ip, port) == generateReply(s, ip, port)

generateFailedReply(s, ip, port) == generateReply(s, ip, port)

\* faulty variant: the failure reply is written but the connection is left open
closeConnectionWithErrorLeavesOpen(mm, err) ==
    LET m1 == [mm EXCEPT !.s.reply = err]
    IN connWrite(m1, "reply", generateFailedReply(m1.s, <<0>>, 0))

closeConnectionWithError(mm, err) ==
    LET m1 == [mm EXCEPT !.s.reply = err]
        bytes == generateFailedReply(m1.s, <<0>>, 0)
    IN closeConnection(connWrite(m1, "reply", bytes))

ensureVersion(mm, version) ==
    IF version # socksVersion THEN closeConnectionWithError(mm, generalFailure) ELSE mm

ensureNMethod(mm, nmethod) ==
    IF ~(1 <= nmethod /\ nmethod <= 255) THEN closeConnectionWithError(mm, generalFailure) ELSE mm

\* ------------------------------------------------------------ greeting
\* the loop of getAvailableMethods from index i: one Read per method into
\* the one-byte buffer mbuf, which is allocated once before the loop
RECURSIVE getAvailableMethodsFrom(_, _, _, _, _)
getAvailableMethodsFrom(mm, nmethod, i, methods, mbuf) ==
    IF i < nmethod
    THEN LET r == connReadInto(mm, mbuf)
         IN getAvailableMethodsFrom(r.m, nmethod, i + 1, Append(methods, r.buf[1]), r.buf)
    ELSE [m |-> mm, methods |-> methods]

\* faulty variant: the loop bound is off by one (i <= nmethod)
getAvailableMethodsOneMore(mm, nmethod) == getAvailableMethodsFrom(mm, nmethod + 1, 0, <<>>, <<0>>)

getAvailableMethods(mm, nmethod) == getAvailableMethodsFrom(mm, nmethod, 0, <<>>, <<0>>)

handleGreetings(mm) ==
    LET version == connRead(mm, 1)
        nmethod == connRead(version.m, 1)
        m1 == ensureVersion(nmethod.m, version.buf[1])
        m2 == ensureNMethod(m1, nmethod.buf[1])
        r == getAvailableMethods(m2, nmethod.buf[1])
        m3 == [r.m EXCEPT !.s.methods = r.methods]
    IN connWrite(m3, "method", <<socksVersion, noAuth>>)

\* ------------------------------------------------------------ request header
parseAddress(mm) ==
    IF mm.s.addressType = ipv4
    THEN LET r == connRead(mm, 4) IN [r.m EXCEPT !.s.IP = r.buf]
    ELSE IF mm.s.addressType = domainName
    THEN LET domainLength == connRead(mm, 1)
             fqdn == connRead(domainLength.m, domainLength.buf[1])
         IN [fqdn.m EXCEPT !.s.FQDN = fqdn.buf]
    ELSE IF mm.s.addressType = ipv6
    THEN LET r == connRead(mm, 16) IN [r.m EXCEPT !.s.IP = r.buf]
    ELSE closeConnectionWithError(mm, addressTypeNotSupported)

parsePort(mm) ==
    LET r == connRead(mm, 2)
    IN [r.m EXCEPT !.s.port = r.buf[1] * 256 + r.buf[2]]

handleRequestHeader(mm) ==
    LET header == connRead(mm, 4)
        m1 == ensureVersion(header.m, header.buf[1])
        m2 == [m1 EXCEPT !.s.command = header.buf[2], !.s.addressType = header.buf[4]]
    IN parsePort(parseAddress(m2))

\* ------------------------------------------------------------ resolution and dial
\* net.IP.To4() # nil: a 4-byte address, or a 16-byte IPv4-mapped one; such an
\* address prints dotted, every other one prints with colons
IsDotted(ip) ==
    \/ Len(ip) = 4
    \/ /\ Len(ip) = 16
       /\ \A i \in 1..10 : ip[i] = 0
       /\ ip[11] = 255
       /\ ip[12] = 255

\* fmt.Sprintf("%v:%d", ip, port): the host and the port the text carries
hostPort(ip, port) == [ip |-> ip, port |-> port]

\* remoteAddress := ""
emptyAddress == [ip |-> <<>>, port |-> 0]

\* net.LookupIP(fqdn): an error, or a list of at least one address
ResolvedLists ==
    { << <<93, 184, 216, 34>> >>,
      << <<0, 0, 0, 0, 0, 0, 0, 0, 0, 0, 255, 255, 93, 184, 216, 34>> >>,
      << <<32, 1, 0, 0, 0, 0, 0, 0, 0, 0, 0, 0, 0, 0, 0, 1>>, <<93, 184, 216, 34>> >> }

LookupResults(fqdn) ==
    {[err |-> TRUE, ips |-> <<>>]}
    \cup (IF fqdn # <<>> /\ \A i \in 1..Len(fqdn) : fqdn[i] # 0
          THEN {[err |-> FALSE, ips |-> l] : l \in ResolvedLists}
          ELSE {})

\* strings.Contains, on texts taken as sequences of words
Contains(msg, pat) ==
    \E i \in 1..(Len(msg) - Len(pat) + 1) : SubSeq(msg, i, i + Len(pat) - 1) = pat

\* err.Error() of a failed net.Dial: the texts of connect(2) errors and of a
\* timeout, and one text that holds both of the phrases handleCommandConnect
\* looks for
ConnectErrors ==
    { <<"connect:", "connection", "refused">>,
      <<"connect:", "network", "is", "unreachable">>,
      <<"connect:", "no", "route", "to", "host">>,
      <<"i/o", "timeout">>,
      <<"lookup", "refused", "on", "resolver:", "network", "is", "unreachable">> }

\* the address does not parse as host:port
AddressErrors == { <<"missing", "address">>, <<"too", "many", "colons", "in", "address">> }

\* net.IP.To4(): the four bytes of an address that prints dotted
To4(ip) == IF Len(ip) = 4 THEN ip ELSE SubSeq(ip, 13, 16)

\* remote.LocalAddr() of a connection to address: the address and the
\* ephemeral port the kernel bound; the address is the destination's own
\* when the destination is this host
LocalAddrs(address) ==
    {[ip |-> i, port |-> 40001] : i \in {<<10, 0, 0, 2>>, To4(address.ip)}}

dialOK(local) == [err |-> FALSE, msg |-> <<>>, local |-> local]
dialFailed(msg) == [err |-> TRUE, msg |-> msg, local |-> [ip |-> <<>>, port |-> 0]]

\* net.Dial("tcp", address): a connection, or an error with its message.
\* Without brackets an address printed with colons does not parse as
\* host:port, the empty address is missing, and nothing listens on port 0.
DialResults(address) ==
    IF ~IsDotted(address.ip) THEN {dialFailed(e) : e \in AddressErrors}
    ELSE IF address.port = 0 THEN {dialFailed(e) : e \in ConnectErrors}
    ELSE {dialOK(l) : l \in LocalAddrs(address)} \cup {dialFailed(e) : e \in ConnectErrors}

\* faulty variant: a lookup error is not answered and the empty address is dialed
constructRemoteAddressIgnoresLookupError(mm, lookup) ==
    IF mm.s.addressType = domainName /\ lookup.err
    THEN [m |-> [mm EXCEPT !.calls = Append(@, [op |-> "LookupIP", ok |-> FALSE, data |-> mm.s.FQDN,
                                                ips |-> lookup.ips])],
          address |-> emptyAddress, panic |-> FALSE]
    ELSE [m |-> mm, address |-> hostPort(mm.s.IP, mm.s.port), panic |-> FALSE]

constructRemoteAddress(mm, lookup) ==
    IF mm.s.addressType = ipv4 \/ mm.s.addressType = ipv6
    THEN [m |-> mm, address |-> hostPort(mm.s.IP, mm.s.port), panic |-> FALSE]
    ELSE IF mm.s.addressType = domainName
    THEN LET m1 == [mm EXCEPT !.calls = Append(@, [op |-> "LookupIP", ok |-> ~lookup.err, data |-> mm.s.FQDN,
                                                    ips |-> lookup.ips])]
             m2 == IF lookup.err THEN closeConnectionWithError(m1, generalFailure) ELSE m1
         IN IF Len(lookup.ips) = 0
            THEN [m |-> m2, address |-> emptyAddress, panic |-> TRUE]   \* ips[0] of an empty list
            ELSE [m |-> [m2 EXCEPT !.s.addressType = ipv4],
                  address |-> hostPort(lookup.ips[1], mm.s.port), panic |-> FALSE]
    ELSE [m |-> closeConnectionWithError(mm, addressTypeNotSupported),
          address |-> emptyAddress, panic |-> FALSE]

\* faulty variant: "refused" is looked for first
dialErrorReplyRefusedFirst(msg) ==
    IF Contains(msg, <<"refused">>) THEN connectionRefused
    ELSE IF Contains(msg, <<"network", "is", "unreachable">>) THEN networkUnreachable
    ELSE hostUnreachable

\* the reply code handleCommandConnect derives from the dial error's message
dialErrorReply(msg) ==
    IF Contains(msg, <<"network", "is", "unreachable">>) THEN networkUnreachable
    ELSE IF Contains(msg, <<"refused">>) THEN connectionRefused
    ELSE hostUnreachable

\* faulty variant: the success reply carries the request's destination
handleCommandConnectEchoesRequest(mm, lookup, dial) ==
    LET r == constructRemoteAddress(mm, lookup)
    IN IF r.panic THEN [m |-> r.m, payload |-> <<>>, panic |-> TRUE]
       ELSE LET m1 == [r.m EXCEPT !.calls = Append(@, [op |-> "Dial", ok |-> ~dial.err, data |-> r.address.ip,
                                                       port |-> r.address.port, msg |-> dial.msg,
                                                       local |-> dial.local]),
                                  !.s.remote = IF dial.err THEN "nil" ELSE "open",
                                  !.s.reply = succeeded]
            IN [m |-> IF dial.err THEN closeConnectionWithError(m1, dialErrorReply(dial.msg)) ELSE m1,
                payload |-> IF dial.err THEN <<>>
                            ELSE generateSucceededReply(m1.s, r.address.ip, r.address.port),
                panic |-> dial.err]

handleCommandConnect(mm, lookup, dial) ==
    LET r == constructRemoteAddress(mm, lookup)
    IN IF r.panic THEN [m |-> r.m, payload |-> <<>>, panic |-> TRUE]
       ELSE LET m1 == [r.m EXCEPT !.calls = Append(@, [op |-> "Dial", ok |-> ~dial.err, data |-> r.address.ip,
                                                       port |-> r.address.port, msg |-> dial.msg,
                                                       local |-> dial.local]),
                                  !.s.remote = IF dial.err THEN "nil" ELSE "open"]
            IN IF dial.err
               THEN \* the reply is written, then remote.LocalAddr() on the nil remote panics
                    [m |-> closeConnectionWithError(m1, dialErrorReply(dial.msg)),
                     payload |-> <<>>, panic |-> TRUE]
               ELSE LET m2 == [m1 EXCEPT !.s.reply = succeeded]
                        bindAddress == dial.local
                    IN [m |-> m2,
                        payload |-> generateSucceededReply(m2.s, bindAddress.ip, bindAddress.port),
                        panic |-> FALSE]

handleRequestCommand(mm, lookup, dial) ==
    IF mm.s.command = connect
    THEN LET r == handleCommandConnect(mm, lookup, dial)
         IN [m |-> r.m, payload |-> r.payload, err |-> FALSE, panic |-> r.panic]
    ELSE [m |-> closeConnectionWithError(mm, commandNotSupported),
          payload |-> <<>>, err |-> TRUE, panic |-> FALSE]

\* faulty variant: doReplyAction calls exchange whatever the command and the reply
shouldExchangeAlways(s) == TRUE

\* doReplyAction's condition for calling exchange
shouldExchange(s) == s.command = connect /\ s.reply = succeeded

\* ------------------------------------------------------------ the session
NewProxy ==
    [s |-> [version |-> 5, command |-> 0, addressType |-> 0, reply |-> 0,
            IP |-> <<>>, FQDN |-> <<>>, port |-> 0, remote |-> "nil", methods |-> <<>>],
     client |-> [state |-> "open", pos |-> 0, eof |-> FALSE, out |-> <<>>, closes |-> 0],
     calls |-> <<>>]

Dirs == {"c2r", "r2c"}

NoRelay ==
    [started |-> FALSE, returned |-> FALSE, err |-> FALSE, i |-> 0, errCh |-> <<>>,
     dir |-> [d \in Dirs |-> [pc |-> "idle", err |-> FALSE, buf |-> <<>>]],
     src |-> [d \in Dirs |-> <<>>],
     dst |-> [d \in Dirs |-> <<>>]]

\* what clients send during the handshake: a greeting, then a request, the
\* stream ending anywhere.  The requests vary behind one greeting and the
\* greetings before one request: nothing of the greeting but an early close
\* of the connection reaches the handling of the request, and after that
\* close no Read takes a byte of the request.
MethodBytes == {0, 2}

Greetings ==
    UNION {{<<v, n>> \o ms : ms \in SeqsOfLen(MethodBytes, n)} : v \in {5, 4}, n \in 0..MaxNMethods}

Addresses(atyp) ==
    IF atyp = ipv4 THEN {<<127, 0, 0, 1>>}
    ELSE IF atyp = domainName THEN {<<1, 97>>}
    ELSE IF atyp = ipv6 THEN {<<0, 0, 0, 0, 0, 0, 0, 0, 0, 0, 0, 0, 0, 0, 0, 1>>,
                              <<0, 0, 0, 0, 0, 0, 0, 0, 0, 0, 255, 255, 127, 0, 0, 1>>}
    ELSE {<<>>}

Ports == {<<31, 144>>, <<0, 0>>}

Requests ==
    UNION {{<<v, c, 0, a>> \o addr \o prt : addr \in Addresses(a), prt \in Ports} :
            v \in {5, 4}, c \in {connect, bind, udpAssociate, 9}, a \in {ipv4, domainName, ipv6, 5}}

plainGreeting == <<socksVersion, 1, noAuth>>
plainRequest == <<socksVersion, connect, 0, ipv4, 127, 0, 0, 1, 31, 144>>

Streams ==
    {g \o plainRequest : g \in Greetings} \cup {plainGreeting \o r : r \in Requests}

Inputs == UNION {Prefixes(q) : q \in Streams}

\* where the greeting of stream q ends: VER, NMETHODS and NMETHODS methods
greetingEnd(q) == IF Len(q) < 2 THEN Len(q) ELSE Min(Len(q), 2 + q[2])

\* the ways the bytes of q arrive apart: at most k positions inside the
\* request (the greeting is read one byte at a time, whatever has arrived)
RECURSIVE CutSets(_, _)
CutSets(q, k) ==
    IF k = 0 THEN {{}}
    ELSE LET less == CutSets(q, k - 1)
         IN less \cup {S \cup {c} : S \in less, c \in (greetingEnd(q) + 1)..(Len(q) - 1)}

\* what the two peers send during the relay, each then closing
ClientData == <<7, 8, 9, 10>>
RemoteData == <<21>>

Init ==
    /\ input \in Inputs
    /\ cuts \in CutSets(input, MaxCuts)
    /\ m = NewProxy
    /\ pc = "handleGreetings"
    /\ payload = <<>>
    /\ cmdErr = FALSE
    /\ relay = NoRelay
    /\ listener = "accepting"

\* ------------------------------------------------------------ handle(), lines 286-312
HandleGreetings ==
    /\ listener = "accepting"
    /\ pc = "handleGreetings"
    /\ m' = handleGreetings(m)
    /\ pc' = "handleRequestHeader"
    /\ UNCHANGED <<input, cuts, payload, cmdErr, relay, listener>>

HandleRequestHeader ==
    /\ listener = "accepting"
    /\ pc = "handleRequestHeader"
    /\ m' = handleRequestHeader(m)
    /\ pc' = "handleRequestCommand"
    /\ UNCHANGED <<input, cuts, payload, cmdErr, relay, listener>>

\* a panic unwinds handle: the deferred closeConnection runs, then the
\* runtime ends the process
HandleRequestCommand ==
    /\ listener = "accepting"
    /\ pc = "handleRequestCommand"
    /\ \E lookup \in LookupResults(m.s.FQDN) :
         \E dial \in DialResults(constructRemoteAddress(m, lookup).address) :
            LET r == handleRequestCommand(m, lookup, dial)
            IN /\ m' = IF r.panic THEN closeConnection(r.m) ELSE r.m
               /\ pc' = IF r.panic THEN "panicked" ELSE "writePayload"
               /\ payload' = r.payload
               /\ cmdErr' = r.err
    /\ listener' = IF pc' = "panicked" THEN "exited" ELSE listener
    /\ UNCHANGED <<input, cuts, relay>>

WritePayload ==
    /\ listener = "accepting"
    /\ pc = "writePayload"
    /\ m' = IF Len(payload) > 0 THEN connWrite(m, "reply", payload) ELSE m
    /\ pc' = "doReplyAction"
    /\ UNCHANGED <<input, cuts, payload, cmdErr, relay, listener>>

\* the client's bytes that no handshake Read has taken
unread == SubSeq(input, m.client.pos + 1, Len(input))

\* doReplyAction up to the start of the two goroutines of exchange: the
\* client->remote copy finds the unread bytes first, then what the client
\* sends next, if it has not ended its stream
DoReplyAction ==
    /\ listener = "accepting"
    /\ pc = "doReplyAction"
    /\ IF shouldExchange(m.s)
       THEN /\ pc' = "exchange"
            /\ \E nc \in (IF m.client.eof THEN {0} ELSE 0..MaxData), nr \in 0..1 :
                 relay' = [NoRelay EXCEPT !.started = TRUE,
                                          !.dir = [d \in Dirs |-> [pc |-> "copy", err |-> FALSE, buf |-> <<>>]],
                                          !.src = [d \in Dirs |-> IF d = "c2r"
                                                                  THEN unread \o SubSeq(ClientData, 1, nc)
                                                                  ELSE SubSeq(RemoteData, 1, nr)]]
       ELSE /\ pc' = "closeRemote"
            /\ relay' = relay
    /\ UNCHANGED <<input, cuts, m, payload, cmdErr, listener>>

\* faulty variant: handle returns without closing the remote connection
CloseRemoteLeavesRemoteOpen ==
    /\ listener = "accepting"
    /\ pc = "closeRemote"
    /\ m' = IF m.s.remote = "nil" THEN closeConnection(m) ELSE m
    /\ pc' = IF m.s.remote = "nil" THEN "panicked" ELSE "deferred"
    /\ listener' = IF pc' = "panicked" THEN "exited" ELSE listener
    /\ UNCHANGED <<input, cuts, payload, cmdErr, relay>>

\* lines 308-311: RemoteAddr() on a nil remote panics, the deferred
\* closeConnection runs and the panic, which no goroutine recovers, ends the
\* process; otherwise the remote connection is closed
CloseRemote ==
    /\ listener = "accepting"
    /\ pc = "closeRemote"
    /\ IF m.s.remote = "nil"
       THEN /\ m' = closeConnection(m)
            /\ pc' = "panicked"
       ELSE /\ m' = [m EXCEPT !.s.remote = "closed",
                              !.calls = Append(@, [op |-> "CloseRemote", ok |-> m.s.remote = "open", data |-> <<>>])]
            /\ pc' = "deferred"
    /\ listener' = IF pc' = "panicked" THEN "exited" ELSE listener
    /\ UNCHANGED <<input, cuts, payload, cmdErr, relay>>

\* handle returns: the deferred closeConnection of line 288 runs
DeferredClose ==
    /\ listener = "accepting"
    /\ pc = "deferred"
    /\ m' = closeConnection(m)
    /\ pc' = "returned"
    /\ UNCHANGED <<input, cuts, payload, cmdErr, relay, listener>>

\* ------------------------------------------------------------ exchange(), lines 263-284
\* the connection a direction reads from, and the one it writes to
srcOpen(d) == IF d = "c2r" THEN m.client.state = "open" ELSE m.s.remote = "open"
dstOpen(d) == IF d = "c2r" THEN m.s.remote = "open" ELSE m.client.state = "open"

copied(d) == Len(relay.dst[d])

\* io.Copy, first half of a round: src.Read returns a chunk
CopyRead(d) ==
    /\ listener = "accepting"
    /\ relay.dir[d].pc = "copy"
    /\ relay.dir[d].buf = <<>>
    /\ srcOpen(d)
    /\ copied(d) < Len(relay.src[d])
    /\ relay' = [relay EXCEPT !.dir[d].buf = <<relay.src[d][copied(d) + 1]>>]
    /\ UNCHANGED <<input, cuts, m, pc, payload, cmdErr, listener>>

\* io.Copy, second half of a round: dst.Write takes the chunk
CopyWrite(d) ==
    /\ listener = "accepting"
    /\ relay.dir[d].pc = "copy"
    /\ relay.dir[d].buf # <<>>
    /\ dstOpen(d)
    /\ relay' = [relay EXCEPT !.dst[d] = @ \o relay.dir[d].buf,
                              !.dir[d].buf = <<>>]
    /\ UNCHANGED <<input, cuts, m, pc, payload, cmdErr, listener>>

\* io.Copy returns nil: the read of src met end-of-stream
CopyEOF(d) ==
    /\ listener = "accepting"
    /\ relay.dir[d].pc = "copy"
    /\ relay.dir[d].buf = <<>>
    /\ srcOpen(d)
    /\ copied(d) = Len(relay.src[d])
    /\ relay' = [relay EXCEPT !.dir[d] = [pc |-> "send", err |-> FALSE, buf |-> <<>>]]
    /\ UNCHANGED <<input, cuts, m, pc, payload, cmdErr, listener>>

\* io.Copy returns an error: a read or a write failed (the peer reset the
\* connection or stopped reading, or this side has closed the connection)
CopyError(d) ==
    /\ listener = "accepting"
    /\ relay.dir[d].pc = "copy"
    /\ relay' = [relay EXCEPT !.dir[d] = [pc |-> "send", err |-> TRUE, buf |-> <<>>]]
    /\ UNCHANGED <<input, cuts, m, pc, payload, cmdErr, listener>>

\* errCh <- err: the channel holds two, so the send never blocks
ProxySend(d) ==
    /\ listener = "accepting"
    /\ relay.dir[d].pc = "send"
    /\ relay' = [relay EXCEPT !.dir[d].pc = "done",
                              !.errCh = Append(@, relay.dir[d].err)]
    /\ UNCHANGED <<input, cuts, m, pc, payload, cmdErr, listener>>

\* faulty variant: the loop waits for a third value
exchangeWaitsForThree(i, err) == ~err /\ i + 1 < 3

\* whether the receive loop of exchange goes on after receiving err as its (i+1)th value
exchangeWaits(i, err) == ~err /\ i + 1 < 2

\* one round of the loop `for i := 0; i < 2; i++ { if err := <-errCh; err != nil { return err } }`
ExchangeRecv ==
    /\ listener = "accepting"
    /\ pc = "exchange"
    /\ Len(relay.errCh) > 0
    /\ LET err == Head(relay.errCh)
       IN IF exchangeWaits(relay.i, err)
          THEN /\ relay' = [relay EXCEPT !.errCh = Tail(@), !.i = @ + 1]
               /\ pc' = pc
          ELSE /\ relay' = [relay EXCEPT !.errCh = Tail(@), !.i = @ + 1,
                                         !.returned = TRUE, !.err = err]
               /\ pc' = "closeRemote"
    /\ UNCHANGED <<input, cuts, m, payload, cmdErr, listener>>

\* serve(): listener.Accept() returns an error and log.Fatalf exits the
\* process; the goroutines of the session stop where they are
AcceptError ==
    /\ listener = "accepting"
    /\ listener' = "exited"
    /\ UNCHANGED <<input, cuts, m, pc, payload, cmdErr, relay>>

Next ==
    \/ HandleGreetings
    \/ HandleRequestHeader
    \/ HandleRequestCommand
    \/ WritePayload
    \/ DoReplyAction
    \/ CloseRemote
    \/ DeferredClose
    \/ \E d \in Dirs : CopyRead(d)
    \/ \E d \in Dirs : CopyWrite(d)
    \/ \E d \in Dirs : CopyEOF(d)
    \/ \E d \in Dirs : CopyError(d)
    \/ \E d \in Dirs : ProxySend(d)
    \/ ExchangeRecv
    \/ AcceptError

Spec == Init /\ [][Next]_vars

\* the goroutine that runs handle, once in exchange: the receive loop takes
\* a value that is in errCh, and the statements after exchange are executed
HandleStep == ExchangeRecv \/ CloseRemote \/ DeferredClose

\* a proxy goroutine: its io.Copy moves on when the source has data, has
\* ended or has failed, and its send on errCh follows
ProxyStep(d) == CopyRead(d) \/ CopyWrite(d) \/ CopyEOF(d) \/ CopyError(d) \/ ProxySend(d)

\* the Go scheduler runs every goroutine that can run
FairSpec == Spec /\ WF_vars(HandleStep) /\ \A d \in Dirs : WF_vars(ProxyStep(d))

\* ------------------------------------------------------------ what the claims speak of
\* the session is over: handle returned, or a panic unwound it
SessionOver == pc \in {"returned", "panicked"}

\* the frames delivered to the client, by kind
Delivered(kind) == {i \in 1..Len(m.client.out) : m.client.out[i].kind = kind}

\* the calls of one operation
Calls(op) == {i \in 1..Len(m.calls) : m.calls[i].op = op}

\* Write calls carrying a reply frame (the method selection has two bytes)
ReplyWrites == {i \in Calls("Write") : Len(m.calls[i].data) > 2}

\* the client's bytes, read as the wire format of RFC 1928 lays them out
InGreeting == Len(input) >= 2 /\ Len(input) >= 2 + input[2]
HdrAt == 2 + input[2]
InHeader == InGreeting /\ Len(input) >= HdrAt + 4
InVer == input[HdrAt + 1]
InCmd == input[HdrAt + 2]
InAtyp == input[HdrAt + 4]
InAddrLen ==
    IF InAtyp = ipv4 THEN 4
    ELSE IF InAtyp = ipv6 THEN 16
    ELSE IF InAtyp = domainName /\ Len(input) >= HdrAt + 5 THEN 1 + input[HdrAt + 5]
    ELSE Len(input) + 1
InRequest == InHeader /\ InAtyp \in {ipv4, domainName, ipv6} /\ Len(input) >= HdrAt + 4 + InAddrLen + 2
GoodGreeting == InGreeting /\ input[1] = socksVersion /\ input[2] >= 1

\* C1: in every session exactly one reply frame reaches the client connection:
\* never more than one at any time, and exactly one once the session is over,
\* whichever path it took.
C1_ExactlyOneReply ==
    /\ Cardinality(Delivered("reply")) <= 1
    /\ SessionOver => Cardinality(Delivered("reply")) = 1

\* a failed session in which the reply was written once although several
\* failure paths each called for one
C1_Witness ==
    /\ SessionOver
    /\ Cardinality(ReplyWrites) > 1
    /\ Cardinality(Delivered("reply")) = 1

\* C2: the relay runs only in a session whose command is connect, whose dial
\* succeeded and whose succeeded reply has been written (or attempted) before;
\* never after a failure reply, for another command, or before the reply write.
C2_RelayOnlyAfterSucceededConnect ==
    relay.started =>
        /\ m.s.command = connect
        /\ \E i \in Calls("Dial") : m.calls[i].ok
        /\ m.s.remote # "nil"
        /\ \E i \in ReplyWrites : m.calls[i].data = payload /\ payload[2] = succeeded
        /\ \A i \in ReplyWrites : m.calls[i].data[2] = succeeded
        /\ \A i \in Delivered("reply") : m.client.out[i].bytes[2] = succeeded

C2_Witness ==
    /\ relay.started
    /\ relay.returned
    /\ Cardinality(Delivered("reply")) = 1

\* C5: after a greeting with version 5 and NMETHODS >= 1, whatever the methods,
\* exactly 2 + NMETHODS bytes are consumed and exactly 05 00 has been written,
\* before the request header is read.
C5_GreetingAccepted ==
    (GoodGreeting /\ pc = "handleRequestHeader") =>
        /\ m.client.pos = 2 + input[2]
        /\ m.client.out = <<[kind |-> "method", bytes |-> <<5, 0>>]>>
        /\ m.s.methods = SubSeq(input, 3, 2 + input[2])
        /\ m.client.state = "open"

\* two methods offered, none of them 0x00, and a request behind them
C5_Witness ==
    /\ GoodGreeting
    /\ pc = "handleRequestHeader"
    /\ input[2] = 2
    /\ \A i \in 3..4 : input[i] # noAuth
    /\ Len(input) > 2 + input[2]

\* C9: a well-formed request (version 5, supported address type) whose command
\* is not connect gets one reply with REP = 0x07, the client connection is
\* closed, and there is no resolution, no dial and no relay.
C9_CommandNotSupported ==
    (GoodGreeting /\ InRequest /\ InVer = socksVersion /\ InCmd # connect) =>
        /\ Calls("Dial") = {} /\ Calls("LookupIP") = {}
        /\ ~relay.started
        /\ pc \notin {"handleGreetings", "handleRequestHeader", "handleRequestCommand"} =>
              /\ Cardinality(Delivered("reply")) = 1
              /\ \A i \in Delivered("reply") : m.client.out[i].bytes[2] = commandNotSupported
              /\ m.client.state = "closed"

\* C3: exchange returns only after both copy directions have finished, also
\* when the first direction to finish ended with an I/O error.
C3_ExchangeJoinsBoth ==
    relay.returned => \A d \in Dirs : relay.dir[d].pc \in {"send", "done"}

\* C4: when a side has sent its bytes and closed, and no read or write of that
\* direction failed, the opposite connection has received exactly those bytes,
\* in order, by the time exchange returns.
C4_RelayDeliversAll ==
    \A d \in Dirs :
        (relay.returned /\ ~relay.dir[d].err) => relay.dst[d] = relay.src[d]

\* C6: a greeting with NMETHODS = 0 is rejected at the greeting step: 05 00 is
\* not written, nothing of a request header is read, no dial is attempted, and
\* the session is over with the client connection closed.
C6_NoMethodsRejected ==
    (InGreeting /\ input[1] = socksVersion /\ input[2] = 0 /\ pc # "handleGreetings") =>
        /\ Delivered("method") = {}
        /\ m.client.pos = 2
        /\ Calls("Dial") = {}
        /\ m.client.state = "closed"
        /\ SessionOver

\* C7: a greeting whose version byte is not 5 ends the session at the greeting
\* stage: 05 00 is not written and no request is read or acted on.
C7_BadGreetingVersionRejected ==
    (Len(input) >= 1 /\ input[1] # socksVersion /\ pc # "handleGreetings") =>
        /\ Delivered("method") = {}
        /\ m.client.pos <= 2
        /\ Calls("Dial") = {} /\ Calls("LookupIP") = {}
        /\ SessionOver

\* C8: a request header whose version byte is not 5 ends the session: no
\* address or port byte is consumed, no resolution or dial is attempted, the
\* relay is not entered, and the client connection is closed.
C8_BadHeaderVersionRejected ==
    (GoodGreeting /\ InHeader /\ InVer # socksVersion
       /\ pc \notin {"handleGreetings", "handleRequestHeader"}) =>
        /\ m.client.pos = HdrAt + 4
        /\ Calls("Dial") = {} /\ Calls("LookupIP") = {}
        /\ ~relay.started
        /\ m.client.state = "closed"

\* C10: a request whose ATYP is none of 1, 3, 4 gets a reply with REP = 0x08
\* and the session closes: the port is not read, the command is not
\* dispatched, and no dial is attempted.
C10_AddressTypeNotSupported ==
    (GoodGreeting /\ InHeader /\ InVer = socksVersion /\ InAtyp \notin {ipv4, domainName, ipv6}
       /\ pc \notin {"handleGreetings", "handleRequestHeader"}) =>
        /\ Cardinality(Delivered("reply")) = 1
        /\ \A i \in Delivered("reply") : m.client.out[i].bytes[2] = addressTypeNotSupported
        /\ m.client.state = "closed"
        /\ m.client.pos = HdrAt + 4
        /\ Calls("Dial") = {} /\ Calls("LookupIP") = {}

\* the reply frames delivered to the client
Replies == {m.client.out[i].bytes : i \in Delivered("reply")}

\* a complete connect request with version 5 behind a good greeting
ConnectRequest == GoodGreeting /\ InRequest /\ InVer = socksVersion /\ InCmd = connect

\* the port the request carries
InPort == input[HdrAt + 4 + InAddrLen + 1] * 256 + input[HdrAt + 4 + InAddrLen + 2]

\* C11: when the dial of a connect request fails, the reply code chosen
\* follows the error message: "network is unreachable" in it gives 0x03,
\* otherwise "refused" in it gives 0x05, otherwise 0x04.  The reply with that
\* code is the next thing written, and the only reply the client gets when
\* the connection was still open; the client connection is then closed and
\* the relay is not entered.
C11_DialErrorClassified ==
    \A i \in Calls("Dial") :
        ~m.calls[i].ok =>
            LET msg == m.calls[i].msg
                rep == IF Contains(msg, <<"network", "is", "unreachable">>) THEN 3
                       ELSE IF Contains(msg, <<"refused">>) THEN 5
                       ELSE 4
            IN /\ m.s.command = connect
               /\ i < Len(m.calls)
               /\ m.calls[i + 1].op = "Write"
               /\ m.calls[i + 1].data[2] = rep
               /\ m.calls[i + 1].ok => Replies = {m.calls[i + 1].data}
               /\ m.s.reply = rep
               /\ m.client.state = "closed"
               /\ ~relay.started

\* a dial failed with a message that holds both texts
C11_Witness ==
    /\ ConnectRequest
    /\ \E i \in Calls("Dial") :
          /\ ~m.calls[i].ok
          /\ Contains(m.calls[i].msg, <<"refused">>)
          /\ Contains(m.calls[i].msg, <<"network", "is", "unreachable">>)
    /\ \E f \in Replies : f[2] = networkUnreachable

\* a connect request that names its destination by domain name
DomainRequest == ConnectRequest /\ InAtyp = domainName

\* C12: when the lookup of a domain-name destination returns an error or an
\* empty list, the client gets a general-failure reply (0x01), its connection
\* is closed and nothing is dialed.
C12_LookupFailureReply ==
    \A i \in Calls("LookupIP") :
        (DomainRequest /\ (~m.calls[i].ok \/ Len(m.calls[i].ips) = 0)) =>
            /\ Cardinality(Replies) = 1
            /\ \A f \in Replies : f[2] = 1
            /\ m.client.state = "closed"
            /\ Calls("Dial") = {}
            /\ ~relay.started

\* the lookup of a requested name failed and the reply went out
C12_Witness ==
    /\ DomainRequest
    /\ \E i \in Calls("LookupIP") : ~m.calls[i].ok /\ Len(m.calls[i].data) > 0
    /\ \E f \in Replies : f[2] = generalFailure
    /\ m.client.state = "closed"

\* the family of a resolved address: IPv4 when To4() gives an address, else IPv6
Family(ip) == IF IsDotted(ip) THEN ipv4 ELSE ipv6

\* C13: when the lookup returns a non-empty list, the endpoint dialed is the
\* first address with the requested port, and the session's address type
\* becomes the family of that address.
C13_FirstAddressAndFamily ==
    \A i \in Calls("LookupIP") :
        (DomainRequest /\ m.calls[i].ok /\ Len(m.calls[i].ips) > 0) =>
            /\ \E j \in Calls("Dial") : j > i
            /\ \A j \in Calls("Dial") :
                  m.calls[j].data = m.calls[i].ips[1] /\ m.calls[j].port = InPort
            /\ m.s.addressType = Family(m.calls[i].ips[1])

\* C14: every failure reply frame has ATYP 0x01, four zero address bytes and
\* two zero port bytes, whatever the request's address type and the stage of
\* the failure.
C14_FailureFrameIsZeroIPv4 ==
    \A f \in Replies :
        f[2] # 0 => f = <<5, f[2], 0, 1, 0, 0, 0, 0, 0, 0>>

\* the bytes of a reply frame between ATYP and the port, and its port
FrameAddr(f) == SubSeq(f, 5, Len(f) - 2)
FramePort(f) == f[Len(f) - 1] * 256 + f[Len(f)]

\* C15: on a successful connect the single reply has REP = 0x00 and carries
\* the local address and port of the outbound connection, not the
\* destination of the request.
C15_SuccessReplyCarriesBoundAddress ==
    (/\ ConnectRequest
     /\ \E i \in Calls("Dial") : m.calls[i].ok
     /\ pc # "writePayload") =>
        /\ Cardinality(Replies) = 1
        /\ \A f \in Replies :
              /\ f[2] = 0
              /\ \E i \in Calls("Dial") :
                    /\ m.calls[i].ok
                    /\ FrameAddr(f) = m.calls[i].local.ip
                    /\ FramePort(f) = m.calls[i].local.port

\* the success reply of a dialed connect request has been delivered
C15_Witness ==
    /\ ConnectRequest
    /\ \E i \in Calls("Dial") : m.calls[i].ok /\ m.calls[i].data = <<127, 0, 0, 1>>
    /\ \E f \in Replies : f[2] = succeeded /\ FrameAddr(f) = <<10, 0, 0, 2>> /\ FramePort(f) = 40001

\* call i is a handshake read that came back short on the open connection
ShortReadAt(i) ==
    /\ m.calls[i].op = "Read"
    /\ ~m.calls[i].ok
    /\ \A j \in 1..(i - 1) : m.calls[j].op # "Close"

\* C16: when a handshake read returns fewer bytes than its field requires,
\* the session is aborted there: no later read or lookup works on the
\* partial data, no dial is attempted and the relay is not entered.
C16_ShortReadAborts ==
    \A i \in 1..Len(m.calls) :
        ShortReadAt(i) =>
            /\ \A j \in (i + 1)..Len(m.calls) : m.calls[j].op \notin {"Read", "LookupIP", "Dial"}
            /\ ~relay.started

\* C17: whenever handle is over, by return or by panic, the client connection
\* is closed and the remote connection, if one was opened, is closed too.
C17_ExitClosesConnections ==
    SessionOver => m.client.state = "closed" /\ m.s.remote # "open"

\* handle returned after a relay that ended in an error, with both closed
C17_Witness ==
    /\ pc = "returned"
    /\ relay.returned /\ relay.err
    /\ \E i \in Calls("Dial") : m.calls[i].ok
    /\ m.client.state = "closed" /\ m.s.remote = "closed"

\* the write side of direction d's destination is shut down; the proxy
\* goroutine calls no CloseWrite, so only a Close of the connection does it
writeShut(d) == ~dstOpen(d)

\* a relay entered with both connections open: the success reply reached the
\* client just before
RelayRan == relay.started /\ \E f \in Replies : f[2] = succeeded

\* C18: a copy direction shuts down the write side of its destination before
\* it signals completion, so when exchange returns the write sides of both
\* connections are shut down.
C18_HalfCloseBeforeSignal ==
    RelayRan =>
        /\ \A d \in Dirs : relay.dir[d].pc = "done" => writeShut(d)
        /\ relay.returned => \A d \in Dirs : writeShut(d)

\* C19: an error in one relay direction ends that direction only: the session
\* closes neither connection before the sibling direction has itself ended
\* its copy.
C19_ErrorEndsOneDirectionOnly ==
    (RelayRan /\ (m.s.remote = "closed" \/ m.client.state = "closed")) =>
        \A d \in Dirs : relay.dir[d].pc \in {"send", "done"}

\* the session has reached Closed: handle is over and both connections are closed
Closed == SessionOver /\ m.client.state = "closed" /\ m.s.remote = "closed"

\* the process is there to schedule the session's goroutines until handle is over
Scheduled == SessionOver \/ listener = "accepting"

\* C20: once the relay has started, if each direction's copy eventually ends
\* (end-of-stream or error on its read side) and the goroutines keep being
\* scheduled, then exchange eventually returns and the session reaches
\* Closed with both connections closed.
C20_RelayTerminates ==
    ([]Scheduled /\ \A d \in Dirs : (relay.started ~> relay.dir[d].pc # "copy"))
        => (relay.started ~> (relay.returned /\ Closed))

\* a relay whose two directions both met end-of-stream, after which handle returned
C20_Witness ==
    /\ RelayRan
    /\ relay.returned /\ ~relay.err /\ relay.i = 2
    /\ Closed

\* C21: closing is idempotent and safe on absent handles: the client
\* connection is never closed a second time, and the close of the remote
\* connection at the end of handle neither uses a remote that was never
\* opened nor crashes.
C21_CloseIdempotentAndNilSafe ==
    /\ [](m.client.closes <= 1)
    /\ [][pc = "closeRemote" => pc' # "panicked"]_vars

\* C22: no session failure and no accept error ends the process: the
\* listener is accepting in every state.
C22_ListenerKeepsAccepting == listener = "accepting"
====
